---- MODULE Spec2Model ----
(***************************************************************************)
(* A model of main.py: the cards and their trump-aware order, the deck,    *)
(* the move generators of a Player's hand, the HumanPlayer input loops and *)
(* the Round that sequences attacks and defenses.                          *)
(*                                                                         *)
(* Python lists whose order is rebuilt from a set (Player.hand after       *)
(* execute_move, Round.card_pool) are kept as the collection of their      *)
(* elements: hand as a set, card_pool as a bag.  The order a hand has when *)
(* a player is prompted is chosen when sort_hand runs on it.               *)
(***************************************************************************)
EXTENDS Bags, FiniteSets, Integers, Sequences, TLC

VARIABLES
    pc,               \* position of the program: Game.__init__, then Round.start_round
    deck,             \* Deck.cards, the last element is the top
    trump_card,       \* Deck.trump_card
    is_trump,         \* Card.is_trump of every card object
    hand,             \* Player.hand of player1 and player2
    dealt,            \* iterations of the dealing loop of Game.__init__ done
    attacker,         \* Round.attacker
    defender,         \* Round.defender
    attacking_cards,  \* Round.attacking_cards
    card_pool,        \* Round.card_pool
    defense,          \* the local defense of start_round
    cycles,           \* iterations of the loop of start_round that executed an attack
    winner,           \* the local winner of start_round
    returned,         \* what start_round handed to its caller
    output,           \* the last line the input loops printed
    call,             \* the function applied with its arguments (function specifications)
    ret               \* its result

vars == <<pc, deck, trump_card, is_trump, hand, dealt, attacker, defender,
          attacking_cards, card_pool, defense, cycles, winner, returned, output,
          call, ret>>

gameVars == <<pc, deck, trump_card, hand, dealt, attacker, defender,
              attacking_cards, card_pool, defense, cycles, winner, returned, output>>

-----------------------------------------------------------------------------
(* Bounds of the model *)

\* random.shuffle is explored on the orders Shuffled(stride, cut), cut \in 0..MaxCut
MaxCut == 0

\* the longest sequence of numbers typed at a prompt
MaxIndices == 2

\* the functions of Card and Player are applied to cards of ranks MinRank..MaxFnRank,
MaxFnRank == 7

\* valid_attacks to hands of at most MaxHandAttacks cards,
MaxHandAttacks == 3

\* valid_defenses to hands of at most MaxHandDefenses cards
MaxHandDefenses == 2

\* and to at most MaxIncoming incoming cards
MaxIncoming == 2

\* the methods of a Deck are called in any order, choose_trump at most
\* MaxTrumpCalls times
MaxTrumpCalls == 2

\* sort_hand is applied to hands of at most MaxHandSort cards
MaxHandSort == 4

-----------------------------------------------------------------------------
(* Values *)

\* Python's None for names (winner, attacker, ...) and optional values
None == "None"
NoValue == <<>>
Some(x) == <<x>>

MinRank == 6
MaxRank == 14
NumSuits == 4
OpeningHand == 6

Ranks == MinRank..MaxRank
Suits == 0..(NumSuits - 1)
Cards == [rank : Ranks, suit : Suits]
Card(rank, suit) == [rank |-> rank, suit |-> suit]

Players == {"player1", "player2"}

Range(seq) == {seq[i] : i \in 1..Len(seq)}

-----------------------------------------------------------------------------
(* Card *)

\* Card.__lt__ asking for the trump flag of the wrong card
lt_self_trump(self, other, trumps) ==
    IF self.suit = other.suit
    THEN self.rank < other.rank
    ELSE trumps[self]

\* Card.__lt__: self < other.  trumps[c] is the is_trump flag of card c.
lt(self, other, trumps) ==
    IF self.suit = other.suit
    THEN self.rank < other.rank
    ELSE trumps[other]

\* c > inc as valid_defenses writes it: Card defines no __gt__, so Python
\* evaluates the reflected inc.__lt__(c)
gt(c, inc, trumps) == lt(inc, c, trumps)

-----------------------------------------------------------------------------
(* Deck *)

DeckSize == NumSuits * (MaxRank - MinRank + 1)

\* Deck.__init__: suits outermost, ranks ascending within a suit
NewDeck ==
    [k \in 1..DeckSize |->
        Card(MinRank + ((k - 1) % (MaxRank - MinRank + 1)),
             (k - 1) \div (MaxRank - MinRank + 1))]

\* the place of a card in the list Deck.__init__ builds
NewDeckIndex(c) == c.suit * (MaxRank - MinRank + 1) + (c.rank - MinRank) + 1

\* The orders of the shuffled deck the model explores: reading the ranks four
\* suits at a time, every stride-th card starting at cut.
Strides == {1, 11}
\* and an order that deals player1 and player2 a ladder of Spades and Hearts in
\* which every card played can be covered by a card of the next rank: the
\* k-th card dealt is LadderDealt[k], the card on top is the 6 of Diamonds
LadderDealt ==
    [k \in 1..(2 * OpeningHand) |-> Card(MinRank + (k \div 2), ((k - 1) \div 2) % 2)]
LadderTop == Card(MinRank, NumSuits - 1)
LadderRest(c) == c # LadderTop /\ \A k \in 1..(2 * OpeningHand) : c # LadderDealt[k]
LadderDeck ==
    SelectSeq(NewDeck, LadderRest)
        \o [k \in 1..(2 * OpeningHand) |-> LadderDealt[2 * OpeningHand + 1 - k]]
        \o <<LadderTop>>

ShufflePerms ==
    { [i \in 1..DeckSize |->
          LET j == (stride * (i - 1) + cut) % DeckSize
          IN  NewDeckIndex(Card(MinRank + (j \div NumSuits), j % NumSuits))]
      : stride \in Strides, cut \in 0..MaxCut }
    \cup { [i \in 1..DeckSize |-> NewDeckIndex(LadderDeck[i])] }

\* Deck.shuffle: random.shuffle(self.cards) leaves some permutation of the list
shuffle(cards) ==
    { [i \in 1..Len(cards) |-> cards[perm[i]]] : perm \in ShufflePerms }

\* Deck.draw: self.cards.pop() removes and returns the last card
draw(cards) ==
    [card |-> cards[Len(cards)], cards |-> SubSeq(cards, 1, Len(cards) - 1)]

\* Deck.draw on a deck without cards: list.pop() raises IndexError
draw_raises(cards) == IF cards = <<>> THEN "IndexError" ELSE None

\* choose_trump putting the drawn card back where it came from, on top
choose_trump_on_top(cards, trumps) ==
    LET d     == draw(cards)
        after == Append(d.cards, d.card)
    IN  [trump_card |-> d.card,
         cards      |-> after,
         is_trump   |-> [c \in Cards |->
                            IF c \in Range(after) /\ c.suit = d.card.suit
                            THEN TRUE ELSE trumps[c]]]

\* Deck.choose_trump: the drawn card goes to index 0, then every card of the
\* deck with its suit is flagged
choose_trump(cards, trumps) ==
    LET d     == draw(cards)
        after == <<d.card>> \o d.cards
    IN  [trump_card |-> d.card,
         cards      |-> after,
         is_trump   |-> [c \in Cards |->
                            IF c \in Range(after) /\ c.suit = d.card.suit
                            THEN TRUE ELSE trumps[c]]]

-----------------------------------------------------------------------------
(* Player *)

\* the lists a Python set of cards can be turned into
RECURSIVE Lists(_)
Lists(S) ==
    IF S = {} THEN {<<>>}
    ELSE UNION { { <<c>> \o l : l \in Lists(S \ {c}) } : c \in S }

RemoveAt(seq, i) == SubSeq(seq, 1, i - 1) \o SubSeq(seq, i + 1, Len(seq))

\* list.sort(key=rank) is stable: a card goes behind the cards of rank <= its own
RECURSIVE insert_by_rank(_, _)
insert_by_rank(sorted, c) ==
    IF sorted = <<>> THEN <<c>>
    ELSE IF sorted[Len(sorted)].rank <= c.rank THEN Append(sorted, c)
    ELSE Append(insert_by_rank(SubSeq(sorted, 1, Len(sorted) - 1), c),
                sorted[Len(sorted)])

RECURSIVE sort_by_rank(_)
sort_by_rank(h) ==
    IF h = <<>> THEN <<>>
    ELSE insert_by_rank(sort_by_rank(SubSeq(h, 1, Len(h) - 1)), h[Len(h)])

\* the loop of sort_hand: n iterations left, i the index (from 1) it looks at
RECURSIVE pop_trumps(_, _, _, _, _)
pop_trumps(h, trumps_list, i, n, trumps) ==
    IF n = 0 THEN h \o trumps_list
    ELSE IF trumps[h[i]]
         THEN pop_trumps(RemoveAt(h, i), Append(trumps_list, h[i]), i, n - 1, trumps)
         ELSE pop_trumps(h, trumps_list, i + 1, n - 1, trumps)

\* sort_hand without its loop: the trumps stay where their rank puts them
sort_hand_by_rank_only(h, trumps) == sort_by_rank(h)

\* Player.sort_hand
sort_hand(h, trumps) == pop_trumps(sort_by_rank(h), <<>>, 1, Len(h), trumps)

\* the reads self.hand[i] of the loop of sort_hand: an index past the end of
\* the list raises IndexError
RECURSIVE pop_trumps_raises(_, _, _, _)
pop_trumps_raises(h, i, n, trumps) ==
    IF n = 0 THEN None
    ELSE IF i > Len(h) THEN "IndexError"
    ELSE IF trumps[h[i]]
         THEN pop_trumps_raises(RemoveAt(h, i), i, n - 1, trumps)
         ELSE pop_trumps_raises(h, i + 1, n - 1, trumps)

\* what a call of sort_hand raises
sort_hand_raises(h, trumps) == pop_trumps_raises(sort_by_rank(h), 1, Len(h), trumps)

\* Player.playable_cards: the dictionary rank -> set of the hand's cards of that
\* rank, built card by card (the parameter is not read)
RECURSIVE playable_cards(_, _)
playable_cards(h, _playable_ranks) ==
    IF h = <<>> THEN <<>>
    ELSE LET result == playable_cards(SubSeq(h, 1, Len(h) - 1), _playable_ranks)
             card   == h[Len(h)]
         IN  IF card.rank \in DOMAIN result
             THEN [result EXCEPT ![card.rank] = @ \cup {card}]
             ELSE [r \in DOMAIN result \cup {card.rank} |->
                      IF r = card.rank THEN {card} ELSE result[r]]

\* Player.get_rank_classes, which valid_attacks calls and the class does not
\* define: the hand's cards grouped by rank, which playable_cards computes
get_rank_classes(h) == playable_cards(h, {})

\* itertools.combinations(group, r) as frozensets
combinations(group, r) == {x \in SUBSET group : Cardinality(x) = r}

\* valid_attacks without its test of the playable ranks
valid_attacks_any_rank(h, _playable_ranks, length_limit) ==
    LET candidates == get_rank_classes(h)
    IN  UNION { UNION { combinations(candidates[c], i + 1)
                        : i \in 0..(Cardinality(candidates[c]) - 1) }
                : c \in DOMAIN candidates }

\* Player.valid_attacks.  length_limit is not read.
valid_attacks(h, _playable_ranks, length_limit) ==
    LET candidates == get_rank_classes(h)
    IN  UNION { UNION { combinations(candidates[c], i + 1)
                        : i \in 0..(Cardinality(candidates[c]) - 1) }
                : c \in {r \in DOMAIN candidates :
                            r \in _playable_ranks \/ _playable_ranks = {}} }

\* curr_beaters.pop(): a Python set hands out an arbitrary element; pop_order
\* lists the incoming cards in the order their tuples are handed out
pop(curr_beaters, pop_order) ==
    CHOOSE b \in curr_beaters :
        \E i \in 1..Len(pop_order) :
            /\ pop_order[i] = b[1]
            /\ \A j \in 1..(i - 1) : \A o \in curr_beaters : o[1] # pop_order[j]

\* make_defense_tree without its test that the card is not in use already
RECURSIVE make_defense_tree_reusing(_, _, _)
make_defense_tree_reusing(curr_beaters, curr_solution, pop_order) ==
    IF curr_beaters = {} THEN {curr_solution}
    ELSE LET curr_starter == pop(curr_beaters, pop_order)
             rest         == curr_beaters \ {curr_starter}
         IN  UNION { make_defense_tree_reusing(rest, curr_solution \cup {card}, pop_order)
                     : card \in curr_starter[2] }

\* make_defense_tree trying the lowest card that covers, and no other
RECURSIVE make_defense_tree_greedy(_, _, _)
make_defense_tree_greedy(curr_beaters, curr_solution, pop_order) ==
    IF curr_beaters = {} THEN {curr_solution}
    ELSE LET curr_starter == pop(curr_beaters, pop_order)
             rest         == curr_beaters \ {curr_starter}
             free         == {x \in curr_starter[2] : x \notin curr_solution}
             lowest       == {x \in free : \A y \in free : x.rank <= y.rank}
         IN  UNION { make_defense_tree_greedy(rest, curr_solution \cup {card}, pop_order)
                     : card \in lowest }

\* Player.valid_defenses.make_defense_tree
RECURSIVE make_defense_tree(_, _, _)
make_defense_tree(curr_beaters, curr_solution, pop_order) ==
    IF curr_beaters = {} THEN {curr_solution}
    ELSE LET curr_starter == pop(curr_beaters, pop_order)
             rest         == curr_beaters \ {curr_starter}
         IN  UNION { make_defense_tree(rest, curr_solution \cup {card}, pop_order)
                     : card \in {x \in curr_starter[2] : x \notin curr_solution} }

\* Player.valid_defenses.  result is a frozenset, so result.remove(foo) raises
\* AttributeError when the empty solution is in it.
valid_defenses(h, _incoming, pop_order, trumps) ==
    LET beaters == { <<inc, {c \in Range(h) : gt(c, inc, trumps)}>> : inc \in _incoming }
        result  == make_defense_tree(beaters, {}, pop_order)
    IN  IF {} \in result
        THEN [raised |-> "AttributeError", value |-> {}]
        ELSE [raised |-> None, value |-> result]

-----------------------------------------------------------------------------
(* HumanPlayer *)

\* What is typed at a prompt: the word pass, the word surrender, numbers
\* separated by spaces, or anything else
Typed(word) == [text |-> word, indices |-> <<>>]
Numbers(indices) == [text |-> "numbers", indices |-> indices]

RECURSIVE SeqsUpTo(_, _)
SeqsUpTo(S, n) ==
    IF n = 0 THEN {<<>>}
    ELSE LET shorter == SeqsUpTo(S, n - 1)
         IN  shorter \cup {Append(q, x) : q \in {t \in shorter : Len(t) = n - 1}, x \in S}

\* the inputs tried at a prompt of a player holding num_cards cards
Inputs(num_cards) ==
    {Typed("pass"), Typed("surrender"), Typed("")}
    \cup {Numbers(q) : q \in SeqsUpTo(0..(num_cards + 1), MaxIndices) \ {<<>>}}

\* all(x.isdigit() and int(x) <= self.num_cards() and int(x) != 0 for x in indices)
all_indices_valid(s, num_cards) ==
    /\ s.text = "numbers"
    /\ \A k \in 1..Len(s.indices) : s.indices[k] <= num_cards /\ s.indices[k] # 0

\* frozenset([self.hand[i] for i in indices]), indices counted from 1 as typed
cards_at(h, indices) == {h[indices[k]] : k \in 1..Len(indices)}

\* v_a of HumanPlayer.generate_attack, computed before its input loop.  The
\* call self.valid_attacks(playable_ranks) leaves out length_limit, which
\* valid_attacks does not read: v_a is what the call computes once completed
\* with card_limit.
generate_attack_v_a(h, playable_ranks, card_limit) ==
    valid_attacks(h, playable_ranks, card_limit)

\* generate_attack without its test for a pass on the first attack
generate_attack_any_pass(h, v_a, playable_ranks, card_limit, s) ==
    IF ~(s.text = "pass" \/ all_indices_valid(s, Len(h)))
    THEN [invalid_input |-> TRUE, result |-> NoValue, output |-> "Invalid input."]
    ELSE IF s.text = "pass"
    THEN [invalid_input |-> FALSE, result |-> NoValue, output |-> ""]
    ELSE IF Len(s.indices) > card_limit
    THEN [invalid_input |-> TRUE, result |-> NoValue,
          output |-> "The opponent doesn't have enough cards to defend against that! Pick fewer cards."]
    ELSE LET attack_attempt == cards_at(h, s.indices)
         IN  IF attack_attempt \in v_a
             THEN [invalid_input |-> FALSE, result |-> Some(attack_attempt), output |-> ""]
             ELSE [invalid_input |-> TRUE, result |-> NoValue,
                   output |-> "You tried to play a rank that's not available!"]

\* generate_attack refusing every pass, as it refuses the opening one
generate_attack_no_pass(h, v_a, playable_ranks, card_limit, s) ==
    IF ~(s.text = "pass" \/ all_indices_valid(s, Len(h)))
    THEN [invalid_input |-> TRUE, result |-> NoValue, output |-> "Invalid input."]
    ELSE IF s.text = "pass"
    THEN [invalid_input |-> TRUE, result |-> NoValue,
          output |-> "You cannot pass on your first attack of the round!"]
    ELSE IF Len(s.indices) > card_limit
    THEN [invalid_input |-> TRUE, result |-> NoValue,
          output |-> "The opponent doesn't have enough cards to defend against that! Pick fewer cards."]
    ELSE LET attack_attempt == cards_at(h, s.indices)
         IN  IF attack_attempt \in v_a
             THEN [invalid_input |-> FALSE, result |-> Some(attack_attempt), output |-> ""]
             ELSE [invalid_input |-> TRUE, result |-> NoValue,
                   output |-> "You tried to play a rank that's not available!"]

\* HumanPlayer.generate_attack: one turn of its input loop on the sorted hand h
generate_attack(h, v_a, playable_ranks, card_limit, s) ==
    IF ~(s.text = "pass" \/ all_indices_valid(s, Len(h)))
    THEN [invalid_input |-> TRUE, result |-> NoValue, output |-> "Invalid input."]
    ELSE IF s.text = "pass"
    THEN IF playable_ranks = {}
         THEN [invalid_input |-> TRUE, result |-> NoValue,
               output |-> "You cannot pass on your first attack of the round!"]
         ELSE [invalid_input |-> FALSE, result |-> NoValue, output |-> ""]
    ELSE IF Len(s.indices) > card_limit
    THEN [invalid_input |-> TRUE, result |-> NoValue,
          output |-> "The opponent doesn't have enough cards to defend against that! Pick fewer cards."]
    ELSE LET attack_attempt == cards_at(h, s.indices)
         IN  IF attack_attempt \in v_a
             THEN [invalid_input |-> FALSE, result |-> Some(attack_attempt), output |-> ""]
             ELSE [invalid_input |-> TRUE, result |-> NoValue,
                   output |-> IF playable_ranks = {}
                              THEN "As your first attack, you may only play cards of a single rank."
                              ELSE "You tried to play a rank that's not available!"]

\* generate_defense without its test that the cards typed are a valid defense
generate_defense_unchecked(h, v_d, incoming, s) ==
    IF ~(s.text = "surrender"
         \/ (all_indices_valid(s, Len(h)) /\ Len(s.indices) = Cardinality(incoming)))
    THEN [invalid_input |-> TRUE, result |-> NoValue, output |-> "Invalid input."]
    ELSE IF s.text = "surrender"
    THEN [invalid_input |-> FALSE, result |-> NoValue, output |-> ""]
    ELSE [invalid_input |-> FALSE, result |-> Some(cards_at(h, s.indices)), output |-> ""]

\* HumanPlayer.generate_defense: one turn of its input loop on the sorted hand
\* h, v_d the value valid_defenses(incoming) returned before the loop
generate_defense(h, v_d, incoming, s) ==
    IF ~(s.text = "surrender"
         \/ (all_indices_valid(s, Len(h)) /\ Len(s.indices) = Cardinality(incoming)))
    THEN [invalid_input |-> TRUE, result |-> NoValue, output |-> "Invalid input."]
    ELSE IF s.text = "surrender"
    THEN [invalid_input |-> FALSE, result |-> NoValue, output |-> ""]
    ELSE LET defense_attempt == cards_at(h, s.indices)
         IN  IF defense_attempt \in v_d
             THEN [invalid_input |-> FALSE, result |-> Some(defense_attempt), output |-> ""]
             ELSE [invalid_input |-> TRUE, result |-> NoValue,
                   output |-> "You entered an invalid defense!"]

-----------------------------------------------------------------------------
(* Game.Round *)

\* Python's `not x` for x a set of cards or None
falsy(x) == IF x = NoValue THEN TRUE ELSE x[1] = {}

\* start_round handing over no ranks at all
pool_ranks_none(pool) == {}

\* set((card.rank for card in self.card_pool))
pool_ranks(pool) == {c.rank : c \in BagToSet(pool)}

\* execute_move leaving the played cards in the hand
execute_move_keeps_hand(player_hand, pool, _cards) ==
    [hand      |-> player_hand,
     card_pool |-> pool (+) SetToBag(_cards)]

\* execute_move without its self.card_pool.extend(cards)
execute_move_no_pool(player_hand, pool, _cards) ==
    [hand      |-> player_hand \ _cards,
     card_pool |-> pool]

\* execute_move emptying the mover's hand
execute_move_discards_hand(player_hand, pool, _cards) ==
    [hand      |-> {},
     card_pool |-> pool (+) SetToBag(_cards)]

\* Round.execute_move on the moving player's hand and the pool
execute_move(player_hand, pool, _cards) ==
    [hand      |-> player_hand \ _cards,
     card_pool |-> pool (+) SetToBag(_cards)]

\* start_round handing over the size of an opening hand
attack_card_limit_opening(attacker_hand, defender_hand) == OpeningHand

\* the card_limit start_round hands to generate_attack
attack_card_limit(attacker_hand, defender_hand) == Cardinality(attacker_hand)

\* `return self.winner` of start_round: a Round has no attribute winner (the
\* loop assigns the local name), so the statement raises AttributeError
start_round_return(local_winner) == "AttributeError"

\* the orders sort_hand can leave a hand in
sorted_hands(cards, trumps) == {sort_hand(l, trumps) : l \in Lists(cards)}

-----------------------------------------------------------------------------
(* The program: Game.__init__, then one Round and its start_round *)

noCall == [fn |-> "none"]
noRet  == [raised |-> "pending", value |-> {}]

Init ==
    /\ pc = "shuffle"
    /\ deck = NewDeck
    /\ trump_card = NoValue
    /\ is_trump = [c \in Cards |-> FALSE]
    /\ hand = [p \in Players |-> {}]
    /\ dealt = 0
    /\ attacker = None
    /\ defender = None
    /\ attacking_cards = NoValue
    /\ card_pool = EmptyBag
    /\ defense = NoValue
    /\ cycles = 0
    /\ winner = None
    /\ returned = None
    /\ output = ""
    /\ call = noCall
    /\ ret = noRet

\* self.deck.shuffle()
Shuffle ==
    /\ pc = "shuffle"
    /\ deck' \in shuffle(deck)
    /\ pc' = "choose_trump"
    /\ UNCHANGED <<trump_card, is_trump, hand, dealt, attacker, defender,
                   attacking_cards, card_pool, defense, cycles, winner, returned,
                   output, call, ret>>

\* self.deck.choose_trump()
ChooseTrump ==
    /\ pc = "choose_trump"
    /\ LET t == choose_trump(deck, is_trump)
       IN  /\ deck' = t.cards
           /\ trump_card' = Some(t.trump_card)
           /\ is_trump' = t.is_trump
    /\ pc' = "deal"
    /\ UNCHANGED <<hand, dealt, attacker, defender, attacking_cards, card_pool,
                   defense, cycles, winner, returned, output, call, ret>>

\* an iteration of the dealing loop that appends both cards to player1.hand
Deal_player1_twice ==
    /\ pc = "deal"
    /\ dealt < OpeningHand
    /\ LET d1 == draw(deck)
           d2 == draw(d1.cards)
       IN  /\ deck' = d2.cards
           /\ hand' = [hand EXCEPT !["player1"] = @ \cup {d1.card, d2.card}]
    /\ dealt' = dealt + 1
    /\ UNCHANGED <<pc, trump_card, is_trump, attacker, defender, attacking_cards,
                   card_pool, defense, cycles, winner, returned, output, call, ret>>

\* one iteration of the dealing loop: player1 draws, then player2
Deal ==
    /\ pc = "deal"
    /\ dealt < OpeningHand
    /\ LET d1 == draw(deck)
           d2 == draw(d1.cards)
       IN  /\ deck' = d2.cards
           /\ hand' = [hand EXCEPT !["player1"] = @ \cup {d1.card},
                                   !["player2"] = @ \cup {d2.card}]
    /\ dealt' = dealt + 1
    /\ UNCHANGED <<pc, trump_card, is_trump, attacker, defender, attacking_cards,
                   card_pool, defense, cycles, winner, returned, output, call, ret>>

\* r = g.Round(g.player1, g.player2, g.deck); r.start_round() enters its loop
RoundInit ==
    /\ pc = "deal"
    /\ dealt = OpeningHand
    /\ attacker' = "player1"
    /\ defender' = "player2"
    /\ attacking_cards' = NoValue
    /\ card_pool' = EmptyBag
    /\ defense' = NoValue
    /\ cycles' = 0
    /\ winner' = None
    /\ pc' = "AwaitingAttack"
    /\ UNCHANGED <<deck, trump_card, is_trump, hand, dealt, returned, output, call, ret>>

\* start_round, from the top of its loop to the defender's prompt: the
\* attacker is prompted on the sorted hand h and types s.
\*   refused: the input loop of generate_attack asks again;
\*   attack:  generate_attack returns a set of cards, the move is executed and
\*            the defender is prompted;
\*   pass:    generate_attack returns None, the defender is the winner, the
\*            loop is left and start_round returns.
AttackerTurn ==
    /\ pc = "AwaitingAttack"
    /\ \E h \in sorted_hands(hand[attacker], is_trump) :
          LET playable_ranks == pool_ranks(card_pool)
              card_limit     == attack_card_limit(hand[attacker], hand[defender])
              v_a            == generate_attack_v_a(h, playable_ranks, card_limit)
          IN  \E s \in Inputs(Len(h)) :
          LET g == generate_attack(h, v_a, playable_ranks, card_limit, s)
              m == execute_move(hand[attacker], card_pool, g.result[1])
          IN  \/ /\ g.invalid_input
                 /\ output' = g.output
                 /\ UNCHANGED <<pc, hand, attacking_cards, card_pool, cycles,
                                winner, returned>>
              \/ /\ ~g.invalid_input
                 /\ ~falsy(g.result)
                 /\ attacking_cards' = g.result
                 /\ hand' = [hand EXCEPT ![attacker] = m.hand]
                 /\ card_pool' = m.card_pool
                 /\ output' = g.output
                 /\ cycles' = cycles + 1
                 /\ pc' = "AwaitingDefense"
                 /\ UNCHANGED <<winner, returned>>
              \/ /\ ~g.invalid_input
                 /\ falsy(g.result)
                 /\ attacking_cards' = g.result
                 /\ output' = g.output
                 /\ winner' = defender
                 /\ returned' = start_round_return(defender)
                 /\ pc' = "Resolved"
                 /\ UNCHANGED <<hand, card_pool, cycles>>
    /\ UNCHANGED <<deck, trump_card, is_trump, dealt, attacker, defender, defense,
                   call, ret>>

\* start_round, from the defender's prompt to the top of its loop: the
\* defender is prompted on the sorted hand h and types s.
\*   refused:   the input loop of generate_defense asks again;
\*   defense:   generate_defense returns a set of cards, the move is executed
\*              and the loop starts over;
\*   surrender: generate_defense returns None, the attacker is the winner,
\*              the loop is left and start_round returns.
DefenderTurn ==
    /\ pc = "AwaitingDefense"
    /\ \E h \in sorted_hands(hand[defender], is_trump),
          pop_order \in Lists(attacking_cards[1]) :
          LET v_d == valid_defenses(h, attacking_cards[1], pop_order, is_trump).value
          IN  \E s \in Inputs(Len(h)) :
          LET g == generate_defense(h, v_d, attacking_cards[1], s)
              m == execute_move(hand[defender], card_pool, g.result[1])
          IN  \/ /\ g.invalid_input
                 /\ output' = g.output
                 /\ UNCHANGED <<pc, hand, card_pool, defense, winner, returned>>
              \/ /\ ~g.invalid_input
                 /\ ~falsy(g.result)
                 /\ defense' = g.result
                 /\ hand' = [hand EXCEPT ![defender] = m.hand]
                 /\ card_pool' = m.card_pool
                 /\ output' = g.output
                 /\ pc' = "AwaitingAttack"
                 /\ UNCHANGED <<winner, returned>>
              \/ /\ ~g.invalid_input
                 /\ falsy(g.result)
                 /\ defense' = g.result
                 /\ output' = g.output
                 /\ winner' = attacker
                 /\ returned' = start_round_return(attacker)
                 /\ pc' = "Resolved"
                 /\ UNCHANGED <<hand, card_pool>>
    /\ UNCHANGED <<deck, trump_card, is_trump, dealt, attacker, defender,
                   attacking_cards, cycles, call, ret>>

Next ==
    \/ Shuffle
    \/ ChooseTrump
    \/ Deal
    \/ RoundInit
    \/ AttackerTurn
    \/ DefenderTurn

Spec == Init /\ [][Next]_vars

\* The statements of Game.__init__ run one after the other, and a player at a
\* prompt ends up typing what the input loop accepts.  At each prompt one
\* answer is accepted whatever the hand: a single card on the opening attack,
\* pass on a later attack, surrender on a defense.  It stays possible while
\* the player is at the prompt, so its weak fairness says that the player
\* leaves the prompt, with this answer or with another.
Setup == Shuffle \/ ChooseTrump \/ Deal \/ RoundInit

\* AttackerTurn when the attacker opens the round with one card
AttackerOpens ==
    /\ pc = "AwaitingAttack"
    /\ card_pool = EmptyBag
    /\ \E c \in hand[attacker] :
          /\ attacking_cards' = Some({c})
          /\ hand' = [hand EXCEPT ![attacker] = @ \ {c}]
          /\ card_pool' = SetToBag({c})
    /\ output' = ""
    /\ cycles' = cycles + 1
    /\ pc' = "AwaitingDefense"
    /\ UNCHANGED <<deck, trump_card, is_trump, dealt, attacker, defender, defense,
                   winner, returned, call, ret>>

\* AttackerTurn when the attacker types pass after the opening attack
AttackerPasses ==
    /\ pc = "AwaitingAttack"
    /\ card_pool # EmptyBag
    /\ attacking_cards' = NoValue
    /\ output' = ""
    /\ winner' = defender
    /\ returned' = start_round_return(defender)
    /\ pc' = "Resolved"
    /\ UNCHANGED <<deck, trump_card, is_trump, hand, dealt, attacker, defender,
                   card_pool, defense, cycles, call, ret>>

\* DefenderTurn when the defender types surrender
DefenderSurrenders ==
    /\ pc = "AwaitingDefense"
    /\ defense' = NoValue
    /\ output' = ""
    /\ winner' = attacker
    /\ returned' = start_round_return(attacker)
    /\ pc' = "Resolved"
    /\ UNCHANGED <<deck, trump_card, is_trump, hand, dealt, attacker, defender,
                   attacking_cards, card_pool, cycles, call, ret>>

SpecLive ==
    /\ Spec
    /\ WF_vars(Setup)
    /\ WF_vars(AttackerOpens)
    /\ WF_vars(AttackerPasses)
    /\ WF_vars(DefenderSurrenders)

-----------------------------------------------------------------------------
(* The functions of Card and Player on their own: the trump suit is one that
   choose_trump designates, the arguments are drawn from bounded sets *)

FnCards == {c \in Cards : c.rank <= MaxFnRank}
FnRanks == MinRank..MaxFnRank
SubsetsUpTo(S, n) == {x \in SUBSET S : Cardinality(x) <= n}

\* the program's variables while a function is applied on its own
FnGame ==
    /\ pc = "call"
    /\ deck = NewDeck
    /\ trump_card = NoValue
    /\ is_trump \in {choose_trump(d, [c \in Cards |-> FALSE]).is_trump : d \in shuffle(NewDeck)}
    /\ hand = [p \in Players |-> {}]
    /\ dealt = 0
    /\ attacker = None
    /\ defender = None
    /\ attacking_cards = NoValue
    /\ card_pool = EmptyBag
    /\ defense = NoValue
    /\ cycles = 0
    /\ winner = None
    /\ returned = None
    /\ output = ""
    /\ ret = noRet

\* self < other
InitCard ==
    /\ FnGame
    /\ call \in [fn : {"lt"}, self : Cards, other : Cards]

Call_lt ==
    /\ call.fn = "lt"
    /\ ret = noRet
    /\ ret' = [raised |-> None, value |-> lt(call.self, call.other, is_trump)]
    /\ UNCHANGED <<gameVars, is_trump, call>>

NextCard == Call_lt

SpecCard == InitCard /\ [][NextCard]_vars

\* player.valid_attacks(playable_ranks, length_limit), player.hand being some
\* list of the cards call.hand
InitAttacks ==
    /\ FnGame
    /\ call \in [fn : {"valid_attacks"},
                 hand : SubsetsUpTo(FnCards, MaxHandAttacks),
                 playable_ranks : SUBSET FnRanks,
                 length_limit : 0..MaxHandAttacks]

Call_valid_attacks ==
    /\ call.fn = "valid_attacks"
    /\ ret = noRet
    /\ \E h \in Lists(call.hand) :
          ret' = [raised |-> None,
                  value |-> valid_attacks(h, call.playable_ranks, call.length_limit)]
    /\ UNCHANGED <<gameVars, is_trump, call>>

NextAttacks == Call_valid_attacks

SpecAttacks == InitAttacks /\ [][NextAttacks]_vars

\* player.valid_defenses(incoming), player.hand being some list of the cards
\* call.hand
InitDefenses ==
    /\ FnGame
    /\ \E cards \in SubsetsUpTo(FnCards, MaxHandDefenses) :
       \E _incoming \in SubsetsUpTo(FnCards \ cards, MaxIncoming) :
          call = [fn |-> "valid_defenses", hand |-> cards, incoming |-> _incoming]

Call_valid_defenses ==
    /\ call.fn = "valid_defenses"
    /\ ret = noRet
    /\ \E h \in Lists(call.hand), pop_order \in Lists(call.incoming) :
          ret' = valid_defenses(h, call.incoming, pop_order, is_trump)
    /\ UNCHANGED <<gameVars, is_trump, call>>

NextDefenses == Call_valid_defenses

SpecDefenses == InitDefenses /\ [][NextDefenses]_vars

\* player.sort_hand(), player.hand being some list of the cards call.hand
InitSort ==
    /\ FnGame
    /\ call \in [fn : {"sort_hand"}, hand : SubsetsUpTo(FnCards, MaxHandSort)]

Call_sort_hand ==
    /\ call.fn = "sort_hand"
    /\ ret = noRet
    /\ \E h \in Lists(call.hand) :
          ret' = IF sort_hand_raises(h, is_trump) = None
                 THEN [raised |-> None, value |-> sort_hand(h, is_trump)]
                 ELSE [raised |-> sort_hand_raises(h, is_trump), value |-> <<>>]
    /\ UNCHANGED <<gameVars, is_trump, call>>

NextSort == Call_sort_hand

SpecSort == InitSort /\ [][NextSort]_vars

-----------------------------------------------------------------------------
(* The Deck on its own: a shuffled deck whose methods choose_trump and draw
   are called in any order, a drawn card going to a hand as Game.__init__
   deals it.  call holds the deck, the trump card and the hands at the time
   of the call and the number of calls of choose_trump so far. *)

\* self.player1.hand.append(...) and self.player2.hand.append(...) in turn
next_to_draw(cards) ==
    IF (DeckSize - Len(cards)) % 2 = 0 THEN "player1" ELSE "player2"

InitDeck ==
    /\ pc = "call"
    /\ deck \in shuffle(NewDeck)
    /\ trump_card = NoValue
    /\ is_trump = [c \in Cards |-> FALSE]
    /\ hand = [p \in Players |-> {}]
    /\ dealt = 0
    /\ attacker = None
    /\ defender = None
    /\ attacking_cards = NoValue
    /\ card_pool = EmptyBag
    /\ defense = NoValue
    /\ cycles = 0
    /\ winner = None
    /\ returned = None
    /\ output = ""
    /\ call = [fn |-> "Deck", cards |-> <<>>, trump_card |-> NoValue,
               hand |-> [p \in Players |-> {}], chosen |-> 0]
    /\ ret = noRet

\* deck.choose_trump(): its draw raises when the deck has no cards
Call_choose_trump ==
    /\ call.chosen < MaxTrumpCalls
    /\ call' = [fn |-> "choose_trump", cards |-> deck, trump_card |-> trump_card,
                hand |-> hand, chosen |-> call.chosen + 1]
    /\ IF draw_raises(deck) # None
       THEN /\ ret' = [raised |-> draw_raises(deck), value |-> NoValue]
            /\ UNCHANGED <<deck, trump_card, is_trump>>
       ELSE LET t == choose_trump(deck, is_trump)
            IN  /\ deck' = t.cards
                /\ trump_card' = Some(t.trump_card)
                /\ is_trump' = t.is_trump
                /\ ret' = [raised |-> None, value |-> NoValue]
    /\ UNCHANGED <<pc, hand, dealt, attacker, defender, attacking_cards, card_pool,
                   defense, cycles, winner, returned, output>>

\* player.hand.append(deck.draw())
Call_draw ==
    /\ call' = [fn |-> "draw", cards |-> deck, trump_card |-> trump_card,
                hand |-> hand, chosen |-> call.chosen]
    /\ IF draw_raises(deck) # None
       THEN /\ ret' = [raised |-> draw_raises(deck), value |-> NoValue]
            /\ UNCHANGED <<deck, hand>>
       ELSE LET d == draw(deck)
            IN  /\ deck' = d.cards
                /\ hand' = [hand EXCEPT ![next_to_draw(deck)] = @ \cup {d.card}]
                /\ ret' = [raised |-> None, value |-> Some(d.card)]
    /\ UNCHANGED <<pc, trump_card, is_trump, dealt, attacker, defender,
                   attacking_cards, card_pool, defense, cycles, winner, returned,
                   output>>

NextDeck ==
    \/ Call_choose_trump
    \/ Call_draw

SpecDeck == InitDeck /\ [][NextDeck]_vars

-----------------------------------------------------------------------------
(* Properties *)

Injective(f) == \A x, y \in DOMAIN f : x # y => f[x] # f[y]
SingleRank(m) == \A x, y \in m : x.rank = y.rank

\* The order of the cards as the rules state it: b beats a
Beats(b, a) ==
    \/ a.suit = b.suit /\ a.rank < b.rank
    \/ ~is_trump[a] /\ is_trump[b] /\ a.suit # b.suit

\* the ways to cover every incoming card with a hand card of its own that beats it
Matchings(incoming, cards) ==
    {f \in [incoming -> cards] : Injective(f) /\ \A inc \in incoming : Beats(f[inc], inc)}

Applied(fn) == call.fn = fn /\ ret.raised # "pending"

\* C1: at every point of a game the deck, the two hands and the round's pool
\* hold each of the 36 cards (ranks 6..14, four suits) exactly once: they are
\* pairwise disjoint, without repetitions, and together they are all the cards.
C1_CardsPartitioned ==
    /\ Cards = [rank : 6..14, suit : 0..3]
    /\ Cardinality(Range(deck)) = Len(deck)
    /\ \A c \in BagToSet(card_pool) : card_pool[c] = 1
    /\ Range(deck) \cap hand["player1"] = {}
    /\ Range(deck) \cap hand["player2"] = {}
    /\ Range(deck) \cap BagToSet(card_pool) = {}
    /\ hand["player1"] \cap hand["player2"] = {}
    /\ hand["player1"] \cap BagToSet(card_pool) = {}
    /\ hand["player2"] \cap BagToSet(card_pool) = {}
    /\ Range(deck) \cup hand["player1"] \cup hand["player2"] \cup BagToSet(card_pool) = Cards
    /\ Len(deck) + Cardinality(hand["player1"]) + Cardinality(hand["player2"])
          + BagCardinality(card_pool) = 36

\* a round in which two attacks were answered and a third is pending
C1_Witness ==
    /\ pc = "AwaitingDefense"
    /\ BagCardinality(card_pool) >= 5
    /\ Cardinality(hand["player2"]) <= 4

\* C2: with one trump suit designated, a < b exactly when b beats a by the
\* rules (same suit and lower rank, or a not trump, b trump, suits differ); so
\* a trump beats every non-trump of another suit, cards of two different
\* non-trump suits are incomparable, and < is irreflexive, asymmetric and
\* transitive.
C2_CardOrder ==
    Applied("lt") =>
        LET a == call.self
            b == call.other
        IN  /\ ret.value <=> Beats(b, a)
            /\ (~is_trump[a] /\ is_trump[b] /\ a.suit # b.suit) => ret.value
            /\ (~is_trump[a] /\ ~is_trump[b] /\ a.suit # b.suit)
                  => ~ret.value /\ ~lt(b, a, is_trump)
            /\ a = b => ~ret.value
            /\ ret.value => ~lt(b, a, is_trump)
            /\ \A c \in Cards : ret.value /\ lt(b, c, is_trump) => lt(a, c, is_trump)

\* a trump of low rank beats a high card of another suit
C2_Witness ==
    /\ Applied("lt")
    /\ ret.value
    /\ call.self.suit # call.other.suit
    /\ call.self.rank > call.other.rank

\* C3: valid_attacks returns no move of more than one rank and no move of more
\* than cardLimit cards; with cardLimit 0 it returns no move.
C3_AttacksWithinLimit ==
    Applied("valid_attacks") =>
        /\ \A m \in ret.value : SingleRank(m) /\ Cardinality(m) <= call.length_limit
        /\ call.length_limit = 0 => ret.value = {}

\* C4: every solution valid_defenses returns is a subset of the hand with as
\* many cards as there are incoming cards, and the incoming cards can be paired
\* one to one with its cards so that each is beaten by its partner.
C4_DefensesSound ==
    (Applied("valid_defenses") /\ ret.raised = None) =>
        \A solution \in ret.value :
            /\ solution \subseteq call.hand
            /\ Cardinality(solution) = Cardinality(call.incoming)
            /\ \E f \in Matchings(call.incoming, call.hand) :
                  {f[inc] : inc \in call.incoming} = solution

\* two incoming cards, each covered by a card of its own
C4_Witness ==
    /\ Applied("valid_defenses")
    /\ ret.raised = None
    /\ Cardinality(call.incoming) = 2
    /\ ret.value # {}

\* C5: for a non-empty batch of incoming cards valid_defenses returns the used
\* cards of every perfect matching of incoming cards to beating hand cards: it
\* returns a solution whenever one exists and nothing when none exists, also
\* when only a part of the batch can be covered.
C5_DefensesComplete ==
    (Applied("valid_defenses") /\ call.incoming # {}) =>
        /\ ret.raised = None
        /\ \A f \in Matchings(call.incoming, call.hand) :
              {f[inc] : inc \in call.incoming} \in ret.value
        /\ Matchings(call.incoming, call.hand) = {} => ret.value = {}

\* 6 of Diamonds and 6 of Spades against a hand that covers only one of them
C5_Witness ==
    /\ Applied("valid_defenses")
    /\ call.incoming = {Card(6, 3), Card(6, 0)}
    /\ call.hand = {Card(7, 3)}
    /\ ~is_trump[Card(7, 3)]
    /\ ret.value = {}

\* C6: valid_attacks returns every non-empty set of hand cards of one rank that
\* has at most cardLimit cards and whose rank is playable (in playableRanks, or
\* playableRanks empty); with playableRanks non-empty it returns no card of
\* another rank; and the order of the hand does not change what it returns.
C6_AttacksComplete ==
    Applied("valid_attacks") =>
        /\ \A m \in (SUBSET call.hand) \ {{}} :
              ( /\ SingleRank(m)
                /\ Cardinality(m) <= call.length_limit
                /\ (call.playable_ranks = {}
                      \/ \A c \in m : c.rank \in call.playable_ranks) )
              => m \in ret.value
        /\ call.playable_ranks # {} =>
              \A m \in ret.value : \A c \in m : c.rank \in call.playable_ranks
        /\ \A h \in Lists(call.hand) :
              valid_attacks(h, call.playable_ranks, call.length_limit) = ret.value

\* a hand with a pair of a playable rank and a card of a rank that is not
C6_Witness ==
    /\ Applied("valid_attacks")
    /\ call.playable_ranks # {}
    /\ call.length_limit >= 2
    /\ \E m \in ret.value : Cardinality(m) = 2
    /\ \E c \in call.hand : c.rank \notin call.playable_ranks

\* C7: while the defender is awaiting defense the pending attackingCards are
\* no more than the cards in the defender's hand, and the cardLimit the round
\* hands to the attacker is the number of cards the defender holds.
C7_AttackFitsDefender ==
    /\ pc = "AwaitingDefense" =>
          Cardinality(attacking_cards[1]) <= Cardinality(hand[defender])
    /\ pc = "AwaitingAttack" =>
          attack_card_limit(hand[attacker], hand[defender]) = Cardinality(hand[defender])

\* a pair attacks a defender who has four cards left
C7_Witness ==
    /\ pc = "AwaitingDefense"
    /\ Cardinality(attacking_cards[1]) = 2
    /\ Cardinality(hand[defender]) = 4

\* C8: a pass on the opening attack of a round is refused: the round never
\* resolves with the defender as winner while the card pool is empty.
C8_NoOpeningPass ==
    (pc = "Resolved" /\ winner = defender) => card_pool # EmptyBag

\* the attacker typed pass on the opening attack and is asked again
C8_Witness ==
    /\ pc = "AwaitingAttack"
    /\ card_pool = EmptyBag
    /\ defense = NoValue
    /\ cycles = 0
    /\ winner = None
    /\ output = "You cannot pass on your first attack of the round!"

\* C9: when the defender surrenders the round resolves with the attacker as
\* winner and every card played in the round, the pending attackingCards
\* included, is then in the defender's hand.
C9_SurrenderTransfersPool ==
    (pc = "Resolved" /\ attacking_cards # NoValue) =>
        /\ winner = attacker
        /\ BagToSet(card_pool) \subseteq hand[defender]
        /\ attacking_cards[1] \subseteq hand[defender]

\* C10: a resolved round was ended by a pass after the opening attack, with the
\* defender as winner, or by a surrender, with the attacker as winner, and
\* start_round returned that winner.
C10_ReturnsWinner ==
    pc = "Resolved" =>
        /\ winner \in {attacker, defender}
        /\ winner = defender <=> attacking_cards = NoValue
        /\ returned = winner

\* the suits that have a card flagged as trump
TrumpSuits == {c.suit : c \in {x \in Cards : is_trump[x]}}

\* C11: a second call of choose_trump in the same game fails and marks no
\* second suit: after it at most one suit has trump cards and the trump card is
\* the one it was before the call.
C11_SecondCallFails ==
    (Applied("choose_trump") /\ call.chosen >= 2) =>
        /\ ret.raised # None
        /\ trump_card = call.trump_card
        /\ Cardinality(TrumpSuits) <= 1

\* C12: once choose_trump has been called, every card of the trump card's suit
\* is flagged as trump and no other card is, whether the card was in the deck
\* or in a hand at the time of the call.
C12_TrumpSuitMarked ==
    (call.chosen = 1 /\ trump_card # NoValue) =>
        \A c \in Cards : is_trump[c] <=> c.suit = trump_card[1].suit

\* C13: choose_trump leaves the size of the deck and its set of cards as they
\* were and puts the trump card at the bottom; the trump card stays there while
\* cards are drawn, no draw but the last one returns it, and the draw that
\* empties the deck returns it.
C13_TrumpCardAtBottom ==
    /\ (Applied("choose_trump") /\ ret.raised = None) =>
          /\ Len(deck) = Len(call.cards)
          /\ Range(deck) = Range(call.cards)
          /\ deck[1] = trump_card[1]
    /\ (trump_card # NoValue /\ deck # <<>>) => deck[1] = trump_card[1]
    /\ (Applied("draw") /\ ret.raised = None /\ call.trump_card # NoValue) =>
          (ret.value = call.trump_card <=> deck = <<>>)

\* the trump card was chosen from the full deck and is the 36th card drawn
C13_Witness ==
    /\ Applied("draw")
    /\ call.chosen = 1
    /\ Len(call.cards) = 1
    /\ deck = <<>>
    /\ ret.value = trump_card
    /\ Cardinality(hand["player1"]) = 18
    /\ Cardinality(hand["player2"]) = 18

\* C14: draw on a deck with cards removes and returns the last card, the deck
\* is one card shorter and the others keep their order; draw on a deck without
\* cards fails with EmptyDeckError, the deck stays empty and the hands are as
\* they were.
C14_DrawContract ==
    Applied("draw") =>
        IF call.cards # <<>>
        THEN /\ ret.raised = None
             /\ ret.value = Some(call.cards[Len(call.cards)])
             /\ deck = SubSeq(call.cards, 1, Len(call.cards) - 1)
        ELSE /\ ret.raised = "EmptyDeckError"
             /\ deck = <<>>
             /\ hand = call.hand

\* the ranks of the cards of a pool
RanksIn(pool) == {c.rank : c \in BagToSet(pool)}

\* the legal attacks of the rules: the non-empty sets of cards of one rank,
\* of a rank played already unless nothing was played, of at most limit cards
LegalAttacks(cards, playable, limit) ==
    {m \in (SUBSET cards) \ {{}} :
        /\ SingleRank(m)
        /\ Cardinality(m) <= limit
        /\ playable = {} \/ \A c \in m : c.rank \in playable}

\* the legal defenses of the rules: the cards of a matching
LegalDefenses(cards, incoming) ==
    {{f[inc] : inc \in incoming} : f \in Matchings(incoming, cards)}

\* the pool as it was before the pending attack
PoolBeforeAttack == card_pool (-) SetToBag(attacking_cards[1])

\* C15: every move a round executes was legal when it was made: the attack
\* just executed is a legal attack of the hand the attacker had, for the ranks
\* the pool had and the number of cards the defender holds, and the defense
\* just executed is a legal defense of the hand the defender had against the
\* attacking cards.
C15_MovesAreLegal ==
    /\ (pc \in {"AwaitingDefense", "Resolved"} /\ attacking_cards # NoValue) =>
          attacking_cards[1] \in
              LegalAttacks(hand[attacker] \cup attacking_cards[1],
                           RanksIn(PoolBeforeAttack),
                           Cardinality(hand[defender]))
    /\ (pc = "AwaitingAttack" /\ defense # NoValue) =>
          defense[1] \in LegalDefenses(hand[defender] \cup defense[1], attacking_cards[1])

\* a pair was played and both of its cards were covered
C15_Witness ==
    /\ pc = "AwaitingAttack"
    /\ defense # NoValue
    /\ Cardinality(attacking_cards[1]) = 2
    /\ Cardinality(defense[1]) = 2

\* C16: when the attacker is asked again after a defense, the playable ranks
\* are the ranks of the cards in the pool, attacking and defending cards
\* alike: a card of the attacker is accepted as an attack exactly when its
\* rank is in the pool, every later attack of a round is of one rank that was
\* in the pool before it, and the ranks in the pool never become fewer.
C16_PlayableRanks ==
    /\ [](pc = "AwaitingAttack" /\ card_pool # EmptyBag =>
            LET h   == CHOOSE l \in Lists(hand[attacker]) : TRUE
                v_a == generate_attack_v_a(h, pool_ranks(card_pool),
                                           attack_card_limit(hand[attacker], hand[defender]))
            IN  \A c \in hand[attacker] : {c} \in v_a <=> c.rank \in RanksIn(card_pool))
    /\ [](pc = "AwaitingDefense" /\ cycles > 1 =>
            /\ SingleRank(attacking_cards[1])
            /\ \A c \in attacking_cards[1] : c.rank \in RanksIn(PoolBeforeAttack))
    /\ [][(pc = "AwaitingAttack" \/ pc = "AwaitingDefense") =>
            RanksIn(card_pool) \subseteq RanksIn(card_pool')]_vars

\* the second attack of a round is of the rank of a card the defender played
C16_Witness ==
    /\ pc = "AwaitingDefense"
    /\ cycles = 2
    /\ \E c \in attacking_cards[1], d \in defense[1] :
          /\ c.rank = d.rank
          /\ \A a \in BagToSet(PoolBeforeAttack) \ defense[1] : a.rank # c.rank

\* C17: the opening deal takes the cards one at a time from the top of the
\* deck, player1 and player2 in turn; after it each player holds 6 cards and
\* the deck holds the other 24 with the trump card at the bottom.
C17_OpeningDeal ==
    /\ pc = "deal" =>
          \E d0 \in shuffle(NewDeck) :
              LET t == <<d0[DeckSize]>> \o SubSeq(d0, 1, DeckSize - 1)
              IN  /\ deck = SubSeq(t, 1, DeckSize - 2 * dealt)
                  /\ hand["player1"] = {t[DeckSize - 2 * j] : j \in 0..(dealt - 1)}
                  /\ hand["player2"] = {t[DeckSize - 2 * j - 1] : j \in 0..(dealt - 1)}
    /\ ((pc = "deal" /\ dealt = 6) \/ (pc = "AwaitingAttack" /\ cycles = 0)) =>
          /\ Cardinality(hand["player1"]) = 6
          /\ Cardinality(hand["player2"]) = 6
          /\ Len(deck) = 24
          /\ Range(deck) = Cards \ (hand["player1"] \cup hand["player2"])
          /\ deck[1] = trump_card[1]

\* the opening deal is done and the round is about to begin
C17_Witness ==
    /\ pc = "deal"
    /\ dealt = 6
    /\ hand["player1"] \cap hand["player2"] = {}
    /\ trump_card # NoValue

\* C18: when a round is over and start_round has handed over to its caller,
\* each hand has been filled up to 6 cards as far as the deck had cards.
C18_HandsReplenished ==
    returned # None =>
        \A p \in Players : Cardinality(hand[p]) >= 6 \/ deck = <<>>

\* the cards a player has played in the round
Played(p) == 6 - Cardinality(hand[p])

\* C19: in a round attacks and defenses take turns, an attack first: while
\* the defender is asked, the attacking cards are a non-empty batch the
\* attacker has just played into the pool and every earlier attack is
\* answered; the attacker is asked again only when the defender covered the
\* batch card for card; player1 stays the attacker and player2 the defender;
\* and a resolved round is left as its last move left it.
C19_MovesAlternate ==
    /\ pc \in {"AwaitingAttack", "AwaitingDefense", "Resolved"} =>
          attacker = "player1" /\ defender = "player2"
    /\ (pc = "AwaitingDefense" \/ (pc = "Resolved" /\ winner = attacker)) =>
          /\ attacking_cards # NoValue
          /\ attacking_cards[1] # {}
          /\ attacking_cards[1] \subseteq BagToSet(card_pool)
          /\ attacking_cards[1] \cap hand[attacker] = {}
          /\ Played(attacker) = Played(defender) + Cardinality(attacking_cards[1])
          /\ BagCardinality(card_pool) = Played(attacker) + Played(defender)
          /\ cycles >= 1
    /\ (pc = "AwaitingAttack" \/ (pc = "Resolved" /\ winner = defender)) =>
          /\ Played(attacker) = Played(defender)
          /\ BagCardinality(card_pool) = 2 * Played(attacker)
          /\ cycles = 0 <=> card_pool = EmptyBag
          /\ cycles = 0 <=> defense = NoValue
          /\ defense # NoValue =>
                /\ defense[1] \subseteq BagToSet(card_pool)
                /\ defense[1] \cap hand[defender] = {}
    /\ (pc = "AwaitingAttack" /\ cycles >= 1) =>
          Cardinality(defense[1]) = Cardinality(attacking_cards[1])
    /\ pc = "Resolved" => winner \in {attacker, defender}

\* the attacker is asked for the third time
C19_Witness ==
    /\ pc = "AwaitingAttack"
    /\ cycles = 2
    /\ BagCardinality(card_pool) >= 4

\* at every prompt there is something to type that the input loop accepts
C20_AnswerExists ==
    /\ pc = "AwaitingAttack" =>
          \E h \in sorted_hands(hand[attacker], is_trump) :
              LET playable_ranks == pool_ranks(card_pool)
                  card_limit     == attack_card_limit(hand[attacker], hand[defender])
                  v_a            == generate_attack_v_a(h, playable_ranks, card_limit)
              IN  \E s \in Inputs(Len(h)) :
                      ~generate_attack(h, v_a, playable_ranks, card_limit, s).invalid_input
    /\ pc = "AwaitingDefense" =>
          \E h \in sorted_hands(hand[defender], is_trump) :
              ~generate_defense(h, {}, attacking_cards[1], Typed("surrender")).invalid_input

-----------------------------------------------------------------------------
\* C21: a step of a round leaves the deck and the hand of the player who is
\* not moving as they are.  A step that executes an attack takes the attacking
\* cards, which the attacker held, out of the attacker's hand, nothing else,
\* and puts one copy of each into the pool, nothing else; a step that executes
\* a defense does the same with the defender's cards.  A step that executes no
\* move (a refused input, for which the valid attacks or defenses were
\* computed, a pass or a surrender) leaves both hands and the pool as they are.
C21_MoveFrameEffects ==
    [][ /\ (pc = "AwaitingAttack" \/ pc = "AwaitingDefense") => deck' = deck
        /\ pc = "AwaitingAttack" =>
              /\ hand'[defender] = hand[defender]
              /\ IF pc' = "AwaitingDefense"
                 THEN /\ attacking_cards' # NoValue
                      /\ attacking_cards'[1] # {}
                      /\ attacking_cards'[1] \subseteq hand[attacker]
                      /\ hand'[attacker] = hand[attacker] \ attacking_cards'[1]
                      /\ card_pool' = card_pool (+) SetToBag(attacking_cards'[1])
                 ELSE hand' = hand /\ card_pool' = card_pool
        /\ pc = "AwaitingDefense" =>
              /\ hand'[attacker] = hand[attacker]
              /\ IF pc' = "AwaitingAttack"
                 THEN /\ defense' # NoValue
                      /\ defense'[1] # {}
                      /\ defense'[1] \subseteq hand[defender]
                      /\ hand'[defender] = hand[defender] \ defense'[1]
                      /\ card_pool' = card_pool (+) SetToBag(defense'[1])
                 ELSE hand' = hand /\ card_pool' = card_pool
      ]_vars

\* a second attack, of two cards, has been executed after a defended first one
C21_Witness ==
    /\ pc = "AwaitingDefense"
    /\ cycles = 2
    /\ Cardinality(attacking_cards[1]) = 2
    /\ Cardinality(hand[attacker]) = 3
    /\ Cardinality(hand[defender]) = 5
    /\ BagCardinality(card_pool) = 4

-----------------------------------------------------------------------------
====
